---- MODULE Spec2Model ----
(***************************************************************************)
(* Model of the tequio process supervisor.                                 *)
(*                                                                         *)
(*   - run_task (src/src/runner.rs): one runner per task, its two streamer *)
(*     tasks, the child process it spawns and the watch channels it uses.  *)
(*   - topo_sort (src/src/config.rs): the ordering of the manifest.        *)
(*   - PidFile (src/src/pidfile.rs): the registry of child identifiers and *)
(*     the file it is persisted to.                                        *)
(*   - main (src/src/main.rs): the supervisor, its runners and the UI.     *)
(*                                                                         *)
(* Spec runs the runners of a small manifest, FairSpec adds the fairness   *)
(* of the runtime, SpecTopo applies topo_sort to every bounded manifest,   *)
(* SpecPid drives a PidFile from every bounded startup file, FairSpecMain  *)
(* runs main with its runners.                                             *)
(***************************************************************************)
EXTENDS Integers, Sequences, FiniteSets, TLC

(***************************************************************************)
(* Bounds.                                                                 *)
(***************************************************************************)
\* number of tasks run by the runners of Spec
NTasks == 2
\* lines a child (or its descendants) writes to stdout and stderr together
MaxLines == 1
\* number of entries of a manifest given to topo_sort
MaxEntries == 3
\* number of depends_on names in a manifest given to topo_sort
MaxDeps == 3
\* number of distinct process identifiers given to the registry
NPids == 2
\* number of chunks of text in the file a previous run left behind
MaxStale == 2

Tasks == 1..NTasks

(***************************************************************************)
(* Text.  A line is a sequence of characters; " " is whitespace.           *)
(***************************************************************************)
IsWhitespace(c) == c = " "

RECURSIVE TrimStart(_)
TrimStart(s) ==
    IF s = <<>> THEN s
    ELSE IF IsWhitespace(Head(s)) THEN TrimStart(Tail(s)) ELSE s

RECURSIVE TrimEnd(_)
TrimEnd(s) ==
    IF s = <<>> THEN s
    ELSE IF IsWhitespace(s[Len(s)]) THEN TrimEnd(SubSeq(s, 1, Len(s) - 1)) ELSE s

\* str::trim
Trim(s) == TrimEnd(TrimStart(s))

\* str::contains
Contains(s, sub) ==
    \E i \in 0..(Len(s) - Len(sub)) : SubSeq(s, i + 1, i + Len(sub)) = sub

\* the lines a child may write, and the ready_check text of the manifest
Lines == { <<"x">>, <<" ", "R", "x", " ">> }
ErrLine == <<" ", "R", "x", " ">>
CheckText == <<"R">>
NoCheck == [some |-> FALSE, text |-> <<>>]
SomeCheck == [some |-> TRUE, text |-> CheckText]

\* runner.rs:98-101, the ready_check scan of one stdout line
LineMatchesEq(check, line) == check.some /\ Trim(line) = check.text
LineMatches(check, line) == check.some /\ Contains(Trim(line), check.text)

VARIABLES
    \* ---- manifest of the run (fixed after Init)
    dep_rxs,        \* dep_rxs[t]: sequence of the tasks whose readiness t awaits
    ready_check,    \* ready_check[t]: NoCheck or SomeCheck
    \* ---- watch channels
    ready,          \* ready[t]: value held by the channel of ready_tx of t
    shutdown,       \* [value, version] of the shutdown channel
    shutdown_rx,    \* shutdown_rx[t]: version last marked seen by t's receiver
    \* ---- runner
    pc,             \* position of run_task
    branch,         \* arm of the final select that run: "none", "child", "shutdown"
    ui,             \* ui[t]: lifecycle events sent to the TUI for t
    pane,           \* pane[t]: lines written to the pane of t
    \* ---- child process and its pipes
    child,          \* "none", "alive", "exited", "killed"
    status,         \* result of child.wait(): "none", "exit0", "exit1", "waiterr"
    grandchild,     \* a descendant of the child is alive and holds the pipes
    stdout,         \* lines in the stdout pipe
    stderr,         \* lines in the stderr pipe
    \* ---- streamers
    stdout_task,    \* [pc, line]: "off", "read", "write", "write_abort", "done", "aborted"
    stderr_task,    \* [pc, line], as stdout_task
    lines_read,     \* lines_read[t]: stdout lines taken by the stdout streamer
    err_read,       \* err_read[t]: number of stderr lines taken
    \* ---- topo_sort
    entries,        \* the manifest given to topo_sort
    sorted,         \* its outcome
    \* ---- PidFile
    pids,           \* self.pids
    file,           \* the file at self.path: [exists, contents]
    reg_pc,         \* "new", "idle", "write", "dropped", "crashed", "interrupted"
    pending,        \* identifiers the loop of write() has still to write
    hist,           \* every value self.pids has had in this run
    last,           \* record of the operation called last
    prev,           \* record of the operation called before it
    \* ---- main
    main_pc,        \* position of main
    joined,         \* number of runner handles main has awaited
    tui             \* the UI task: "running", "quit" (by the user), "stopped"

runnerVars == <<dep_rxs, ready_check, ready, shutdown, shutdown_rx, pc, branch, ui,
                pane, child, status, grandchild, stdout, stderr, stdout_task,
                stderr_task, lines_read, err_read>>
topoVars == <<entries, sorted>>
pidVars == <<pids, file, reg_pc, pending, hist, last, prev>>
mainVars == <<main_pc, joined, tui>>
vars == <<runnerVars, topoVars, pidVars, mainVars>>

(***************************************************************************)
(* Helpers over the per-task state.                                        *)
(***************************************************************************)
Set(f, t, v) == [f EXCEPT ![t] = v]
Push(f, t, v) == [f EXCEPT ![t] = Append(@, v)]

\* watch::Sender::send(true) on ready_tx: the supervisor keeps a receiver of
\* every channel, so the send stores the value
SendReady(t) == Set(ready, t, TRUE)

WaitAllReadyNoWait(t) == TRUE
\* every dependency's readiness is true: wait_all (runner.rs:37-41) runs through
\* the receivers in order and readiness never goes back to false
WaitAllReady(t) == \A i \in 1..Len(dep_rxs[t]) : ready[dep_rxs[t][i]]

\* a write end of the child's pipes is still open
PipesOpen(t) == child[t] = "alive" \/ grandchild[t]

Idle == [pc |-> "off", line |-> <<>>]
Streamer(p, l) == [pc |-> p, line |-> l]

\* JoinHandle::abort: takes effect at the streamer's next await; a streamer that
\* holds a line first writes it
Abort(st) ==
    IF st.pc = "read" THEN Streamer("aborted", <<>>)
    ELSE IF st.pc = "write" THEN Streamer("write_abort", st.line)
    ELSE st

(***************************************************************************)
(* The manifests of Spec: every task depends on tasks declared before it   *)
(* (the supervisor rejects cyclic manifests), with or without ready_check. *)
(***************************************************************************)
RECURSIVE SetToSeq(_)
SetToSeq(S) ==
    IF S = {} THEN <<>>
    ELSE LET m == CHOOSE x \in S : \A y \in S : x <= y
         IN <<m>> \o SetToSeq(S \ {m})

DepChoices(t) == { SetToSeq(S) : S \in SUBSET { d \in Tasks : d < t } }

TopoIdle == [state |-> "idle", order |-> <<>>, dependent |-> 0, missing |-> 0]

\* a file that does not exist
NoFile == [exists |-> FALSE, contents |-> <<>>]
\* no operation has been called
NoOp == [op |-> "none", pid |-> 0, held |-> {}, seen |-> NoFile, kills |-> {},
         pids |-> {}, file |-> NoFile]

\* pidfile.rs:12-15: PidFile::new with no file left behind
RegistryAtStart ==
    /\ pids = {}
    /\ file = NoFile
    /\ reg_pc = "new"
    /\ pending = {}
    /\ hist = {{}}
    /\ last = NoOp
    /\ prev = NoOp

\* main.rs:228-234: main has spawned the UI task
MainAtStart ==
    /\ main_pc = "spawn"
    /\ joined = 0
    /\ tui = "running"

\* main.rs:236-243 and the start of every runner: channels hold false, nothing
\* has run
RunnersAtStart ==
    /\ ready = [t \in Tasks |-> FALSE]
    /\ shutdown = [value |-> FALSE, version |-> 0]
    /\ shutdown_rx = [t \in Tasks |-> 0]
    /\ pc = [t \in Tasks |-> "start"]
    /\ branch = [t \in Tasks |-> "none"]
    /\ ui = [t \in Tasks |-> <<>>]
    /\ pane = [t \in Tasks |-> <<>>]
    /\ child = [t \in Tasks |-> "none"]
    /\ status = [t \in Tasks |-> "none"]
    /\ grandchild = [t \in Tasks |-> FALSE]
    /\ stdout = [t \in Tasks |-> <<>>]
    /\ stderr = [t \in Tasks |-> <<>>]
    /\ stdout_task = [t \in Tasks |-> Idle]
    /\ stderr_task = [t \in Tasks |-> Idle]
    /\ lines_read = [t \in Tasks |-> <<>>]
    /\ err_read = [t \in Tasks |-> 0]

Init ==
    /\ dep_rxs \in { f \in [Tasks -> UNION { DepChoices(t) : t \in Tasks }] :
                       \A t \in Tasks : f[t] \in DepChoices(t) }
    /\ ready_check \in [Tasks -> {NoCheck, SomeCheck}]
    /\ RunnersAtStart
    /\ entries = <<>>
    /\ sorted = TopoIdle
    /\ RegistryAtStart
    /\ MainAtStart

(***************************************************************************)
(* run_task, runner.rs:17-159.                                             *)
(***************************************************************************)
childVars == <<child, status, grandchild, stdout, stderr>>
streamVars == <<stdout_task, stderr_task, lines_read, err_read>>
configVars == <<dep_rxs, ready_check>>

\* runner.rs:27-36: start the pane; announce "waiting" when there are dependencies
Start(t) ==
    /\ pc[t] = "start"
    /\ IF dep_rxs[t] # <<>>
         THEN /\ ui' = Set(ui, t, ui[t] \o <<"start", "waiting">>)
              /\ pc' = Set(pc, t, "wait")
         ELSE /\ ui' = Push(ui, t, "start")
              /\ pc' = Set(pc, t, "check")
    /\ UNCHANGED <<configVars, ready, shutdown, shutdown_rx, branch, pane, childVars,
                   streamVars, topoVars, pidVars, mainVars>>

\* runner.rs:42-43: the wait_all arm of the first select completes
WaitAll(t) ==
    /\ pc[t] = "wait"
    /\ WaitAllReady(t)
    /\ pc' = Set(pc, t, "check")
    /\ UNCHANGED <<configVars, ready, shutdown, shutdown_rx, branch, ui, pane, childVars,
                   streamVars, topoVars, pidVars, mainVars>>

\* runner.rs:44-48: the shutdown arm of the first select completes; wait_for
\* marks the current version seen and returns once the value is true
WaitShutdown(t) ==
    /\ pc[t] = "wait"
    /\ shutdown.value
    /\ shutdown_rx' = Set(shutdown_rx, t, shutdown.version)
    /\ ready' = SendReady(t)
    /\ ui' = Push(ui, t, "failed")
    /\ pc' = Set(pc, t, "done")
    /\ UNCHANGED <<configVars, shutdown, branch, pane, childVars, streamVars, topoVars, pidVars, mainVars>>

\* runner.rs:53: the value read by *shutdown_rx.borrow() before spawning
PreSpawnShutdownNever(t) == FALSE
PreSpawnShutdown(t) == shutdown.value

\* runner.rs:52-63: the pre-spawn check, then the "running" announcement
Check(t) ==
    /\ pc[t] = "check"
    /\ IF PreSpawnShutdown(t)
         THEN /\ ready' = SendReady(t)
              /\ ui' = Push(ui, t, "failed")
              /\ pc' = Set(pc, t, "done")
         ELSE /\ ui' = Push(ui, t, "running")
              /\ pc' = Set(pc, t, "spawn")
              /\ UNCHANGED ready
    /\ UNCHANGED <<configVars, shutdown, shutdown_rx, branch, pane, childVars, streamVars,
                   topoVars, pidVars, mainVars>>

\* runner.rs:82-85: readiness right after a successful spawn
ReadyAfterSpawnAlways(t) == SendReady(t)
ReadyAfterSpawn(t) == IF ready_check[t].some THEN ready ELSE SendReady(t)

\* runner.rs:65-73, 82-116: the spawn succeeds; both streamers are started.  The
\* shell may start a workload that outlives it and inherits the pipes.
SpawnOk(t) ==
    /\ pc[t] = "spawn"
    /\ child' = Set(child, t, "alive")
    /\ \E g \in BOOLEAN : grandchild' = Set(grandchild, t, g)
    /\ ready' = ReadyAfterSpawn(t)
    /\ stdout_task' = Set(stdout_task, t, Streamer("read", <<>>))
    /\ stderr_task' = Set(stderr_task, t, Streamer("read", <<>>))
    /\ pc' = Set(pc, t, "race")
    /\ UNCHANGED <<configVars, shutdown, shutdown_rx, branch, ui, pane, status, stdout,
                   stderr, lines_read, err_read, topoVars, pidVars, mainVars>>

\* runner.rs:74-79: readiness after a failed spawn
ReadyOnSpawnErrNot(t) == ready
ReadyOnSpawnErr(t) == SendReady(t)

\* runner.rs:74-79: the spawn fails
SpawnErr(t) ==
    /\ pc[t] = "spawn"
    /\ pane' = Push(pane, t, [from |-> "runner", line |-> <<"failed to spawn command">>])
    /\ ui' = Push(ui, t, "failed")
    /\ ready' = ReadyOnSpawnErr(t)
    /\ pc' = Set(pc, t, "done")
    /\ UNCHANGED <<configVars, shutdown, shutdown_rx, branch, childVars, streamVars,
                   topoVars, pidVars, mainVars>>

(***************************************************************************)
(* The child process: what the shell and its descendants may do.           *)
(***************************************************************************)
Written(t) == Len(lines_read[t]) + Len(stdout[t]) + err_read[t] + Len(stderr[t])

\* nothing reads the pipes once the runner has left the race and the drain
Reading(t) == pc[t] \in {"race", "drain"}

ChildWrite(t) ==
    /\ Reading(t)
    /\ PipesOpen(t)
    /\ Written(t) < MaxLines
    /\ \E l \in Lines : stdout' = Push(stdout, t, l)
    /\ UNCHANGED <<configVars, ready, shutdown, shutdown_rx, pc, branch, ui, pane, child,
                   status, grandchild, stderr, streamVars, topoVars, pidVars, mainVars>>

ChildWriteErr(t) ==
    /\ Reading(t)
    /\ PipesOpen(t)
    /\ Written(t) < MaxLines
    /\ stderr' = Push(stderr, t, ErrLine)
    /\ UNCHANGED <<configVars, ready, shutdown, shutdown_rx, pc, branch, ui, pane, child,
                   status, grandchild, stdout, streamVars, topoVars, pidVars, mainVars>>

\* the shell exits
ChildExit(t) ==
    /\ pc[t] = "race"
    /\ child[t] = "alive"
    /\ child' = Set(child, t, "exited")
    /\ UNCHANGED <<configVars, ready, shutdown, shutdown_rx, pc, branch, ui, pane, status,
                   grandchild, stdout, stderr, streamVars, topoVars, pidVars, mainVars>>

\* the workload started by the shell exits
GrandchildExit(t) ==
    /\ Reading(t)
    /\ grandchild[t]
    /\ grandchild' = Set(grandchild, t, FALSE)
    /\ UNCHANGED <<configVars, ready, shutdown, shutdown_rx, pc, branch, ui, pane, child,
                   status, stdout, stderr, streamVars, topoVars, pidVars, mainVars>>

(***************************************************************************)
(* The streamers, runner.rs:92-116.                                        *)
(***************************************************************************)
\* runner.rs:97-102: next_line returns a stdout line; the ready_check scan
StdoutRead(t) ==
    /\ stdout_task[t].pc = "read"
    /\ stdout[t] # <<>>
    /\ LET line == Head(stdout[t]) IN
         /\ stdout' = Set(stdout, t, Tail(stdout[t]))
         /\ lines_read' = Push(lines_read, t, line)
         /\ ready' = IF LineMatches(ready_check[t], line) THEN SendReady(t) ELSE ready
         /\ stdout_task' = Set(stdout_task, t, Streamer("write", line))
    /\ UNCHANGED <<configVars, shutdown, shutdown_rx, pc, branch, ui, pane, child, status,
                   grandchild, stderr, stderr_task, err_read, topoVars, pidVars, mainVars>>

\* runner.rs:103: the line goes to the pane
StdoutWrite(t) ==
    /\ stdout_task[t].pc \in {"write", "write_abort"}
    /\ pane' = Push(pane, t, [from |-> "stdout", line |-> stdout_task[t].line])
    /\ stdout_task' = Set(stdout_task, t,
            Streamer(IF stdout_task[t].pc = "write" THEN "read" ELSE "aborted", <<>>))
    /\ UNCHANGED <<configVars, ready, shutdown, shutdown_rx, pc, branch, ui, childVars,
                   stderr_task, lines_read, err_read, topoVars, pidVars, mainVars>>

\* runner.rs:97: next_line returns None once every write end is closed
StdoutEof(t) ==
    /\ stdout_task[t].pc = "read"
    /\ stdout[t] = <<>>
    /\ ~PipesOpen(t)
    /\ stdout_task' = Set(stdout_task, t, Streamer("done", <<>>))
    /\ UNCHANGED <<configVars, ready, shutdown, shutdown_rx, pc, branch, ui, pane,
                   childVars, stderr_task, lines_read, err_read, topoVars, pidVars, mainVars>>

\* runner.rs:112-113: readiness after a stderr line (the stderr streamer has no scan)
ReadyOnStderrScan(t, line) ==
    IF LineMatches(ready_check[t], line) THEN SendReady(t) ELSE ready
ReadyOnStderr(t, line) == ready

\* runner.rs:112-113: next_line returns a stderr line, which goes to the pane
StderrRead(t) ==
    /\ stderr_task[t].pc = "read"
    /\ stderr[t] # <<>>
    /\ LET line == Head(stderr[t]) IN
         /\ stderr' = Set(stderr, t, Tail(stderr[t]))
         /\ err_read' = Set(err_read, t, err_read[t] + 1)
         /\ ready' = ReadyOnStderr(t, line)
         /\ pane' = Push(pane, t, [from |-> "stderr", line |-> line])
    /\ UNCHANGED <<configVars, shutdown, shutdown_rx, pc, branch, ui, child, status,
                   grandchild, stdout, stdout_task, stderr_task, lines_read, topoVars, pidVars, mainVars>>

\* runner.rs:112
StderrEof(t) ==
    /\ stderr_task[t].pc = "read"
    /\ stderr[t] = <<>>
    /\ ~PipesOpen(t)
    /\ stderr_task' = Set(stderr_task, t, Streamer("done", <<>>))
    /\ UNCHANGED <<configVars, ready, shutdown, shutdown_rx, pc, branch, ui, pane,
                   childVars, stdout_task, lines_read, err_read, topoVars, pidVars, mainVars>>

(***************************************************************************)
(* The race of runner.rs:118-158.                                          *)
(***************************************************************************)
\* runner.rs:132: child.wait() completes first; st is what it returns
ChildWins(t) ==
    /\ pc[t] = "race"
    /\ child[t] = "exited"
    /\ \E st \in {"exit0", "exit1", "waiterr"} : status' = Set(status, t, st)
    /\ branch' = Set(branch, t, "child")
    /\ pc' = Set(pc, t, "drain")
    /\ UNCHANGED <<configVars, ready, shutdown, shutdown_rx, ui, pane, child, grandchild,
                   stdout, stderr, streamVars, topoVars, pidVars, mainVars>>

\* runner.rs:136-149: the terminal status for the result of child.wait()
TerminalOfAlwaysOk(st) == "succeeded"
TerminalOf(st) == IF st = "exit0" THEN "succeeded" ELSE "failed"

Diagnostic(st) ==
    IF st = "exit0" THEN <<>>
    ELSE IF st = "exit1"
           THEN << [from |-> "runner", line |-> <<"process exited with code", "1">>] >>
           ELSE << [from |-> "runner", line |-> <<"error waiting for process">>] >>

\* runner.rs:133-149: both streamers have ended; readiness, then the terminal status
Finish(t) ==
    /\ pc[t] = "drain"
    /\ stdout_task[t].pc = "done"
    /\ stderr_task[t].pc = "done"
    /\ ready' = SendReady(t)
    /\ pane' = Set(pane, t, pane[t] \o Diagnostic(status[t]))
    /\ ui' = Push(ui, t, TerminalOf(status[t]))
    /\ pc' = Set(pc, t, "done")
    /\ UNCHANGED <<configVars, shutdown, shutdown_rx, branch, childVars, streamVars,
                   topoVars, pidVars, mainVars>>

ShutdownObservedNever(t) == FALSE
\* runner.rs:125: the value the shutdown future borrows after changed()
ShutdownObserved(t) == shutdown.value

\* runner.rs:119-129, 151: changed() returns for a version not yet seen, and the
\* loop breaks when the value is true
ShutdownWins(t) ==
    /\ pc[t] = "race"
    /\ shutdown.version # shutdown_rx[t]
    /\ shutdown_rx' = Set(shutdown_rx, t, shutdown.version)
    /\ IF ShutdownObserved(t)
         THEN /\ branch' = Set(branch, t, "shutdown")
              /\ pc' = Set(pc, t, "kill")
         ELSE UNCHANGED <<branch, pc>>
    /\ UNCHANGED <<configVars, ready, shutdown, ui, pane, childVars, streamVars, topoVars, pidVars, mainVars>>

\* runner.rs:152: Child::kill ends the direct child only
KillChild(t) == IF child[t] = "alive" THEN Set(child, t, "killed") ELSE child

\* runner.rs:152-156: kill, abort both streamers (an aborted streamer drops its
\* reader, and with it what the pipe still held), readiness, FAILED
Kill(t) ==
    /\ pc[t] = "kill"
    /\ child' = KillChild(t)
    /\ stdout_task' = Set(stdout_task, t, Abort(stdout_task[t]))
    /\ stderr_task' = Set(stderr_task, t, Abort(stderr_task[t]))
    /\ stdout' = Set(stdout, t, <<>>)
    /\ stderr' = Set(stderr, t, <<>>)
    /\ ready' = SendReady(t)
    /\ ui' = Push(ui, t, "failed")
    /\ pc' = Set(pc, t, "done")
    /\ UNCHANGED <<configVars, shutdown, shutdown_rx, branch, pane, status, grandchild,
                   lines_read, err_read, topoVars, pidVars, mainVars>>

(***************************************************************************)
(* The supervisor broadcasts shutdown: one send of true.                   *)
(***************************************************************************)
Broadcast ==
    /\ ~shutdown.value
    /\ shutdown' = [value |-> TRUE, version |-> shutdown.version + 1]
    /\ UNCHANGED <<configVars, ready, shutdown_rx, pc, branch, ui, pane, childVars,
                   streamVars, topoVars, pidVars, mainVars>>

Runner(t) ==
    \/ Start(t) \/ WaitAll(t) \/ WaitShutdown(t) \/ Check(t)
    \/ SpawnOk(t) \/ SpawnErr(t)
    \/ ChildWins(t) \/ Finish(t) \/ ShutdownWins(t) \/ Kill(t)

Streamers(t) ==
    \/ StdoutRead(t) \/ StdoutWrite(t) \/ StdoutEof(t)
    \/ StderrRead(t) \/ StderrEof(t)

Process(t) ==
    \/ ChildWrite(t) \/ ChildWriteErr(t) \/ ChildExit(t) \/ GrandchildExit(t)

Next ==
    \/ \E t \in Tasks : Runner(t)
    \/ \E t \in Tasks : Streamers(t)
    \/ \E t \in Tasks : Process(t)
    \/ Broadcast

Spec == Init /\ [][Next]_vars

\* the runtime polls every runner and streamer that can make progress; nothing
\* obliges a process to write, to exit, or the supervisor to shut down
FairSpec ==
    /\ Spec
    /\ \A t \in Tasks : WF_vars(Runner(t)) /\ WF_vars(Streamers(t))

(***************************************************************************)
(* Properties of run_task.                                                 *)
(***************************************************************************)
Range(q) == { q[i] : i \in 1..Len(q) }
Last(q) == q[Len(q)]
Announced(t, what) == what \in Range(ui[t])
Terminals(t) == { i \in 1..Len(ui[t]) : ui[t][i] \in {"succeeded", "failed"} }
PreSpawn == {"start", "wait", "check"}

\* C1: whenever a runner has returned, by whichever path, its readiness signal
\* is true.
C1_ReadyAtReturn == \A t \in Tasks : pc[t] = "done" => ready[t]

C1_Witness ==
    \E t, u \in Tasks :
        /\ pc[t] = "done" /\ branch[t] = "shutdown"
        /\ pc[u] = "done" /\ branch[u] = "none" /\ Announced(u, "running")

\* C2: a task that has announced running or spawned its child has every
\* dependency's readiness true; and a task that is still before its spawn when
\* shutdown is true never announces running.
C2_Gate ==
    \A t \in Tasks :
        (Announced(t, "running") \/ child[t] # "none")
            => \A d \in Range(dep_rxs[t]) : ready[d]

C2_Preempted ==
    \A t \in Tasks :
        (shutdown.value /\ pc[t] \in PreSpawn)
            => (pc'[t] \in PreSpawn \cup {"done"} /\ ~Announced(t, "running")')

\* C2: the gate holds in every state, and shutdown before the spawn preempts
\* the running announcement at every step.
C2_DepsReadyBeforeRunning == [](C2_Gate) /\ [][C2_Preempted]_vars

C2_Witness ==
    \E t \in Tasks :
        /\ Len(dep_rxs[t]) > 0
        /\ child[t] = "alive"
        /\ \E d \in Range(dep_rxs[t]) : ready_check[d].some /\ pc[d] = "race"

\* C3: with no shutdown ever, once a task's child has exited or failed to spawn
\* the task's readiness eventually becomes true, and every dependent whose
\* dependencies are then all ready eventually announces running.
C3_DeadProducerUnblocks ==
    ([] ~shutdown.value) =>
        \A t \in Tasks :
            /\ (child[t] = "exited" \/ (pc[t] = "done" /\ child[t] = "none")) ~> ready[t]
            /\ (Len(dep_rxs[t]) > 0 /\ WaitAllReady(t)) ~> Announced(t, "running")

\* C4: a runner that has not passed its pre-spawn check when shutdown is true
\* never announces running and never spawns; when it returns its readiness is
\* true and its last status is failed.
C4_Step ==
    \A t \in Tasks :
        (shutdown.value /\ pc[t] \in PreSpawn)
            => /\ pc'[t] \in PreSpawn \cup {"done"}
               /\ child'[t] = "none"
               /\ ~Announced(t, "running")'
               /\ pc'[t] = "done" => (ready'[t] /\ Last(ui'[t]) = "failed")

\* C4: every step of a runner that is before its spawn under shutdown keeps it
\* unannounced and childless, and its return leaves readiness true and FAILED.
C4_ShutdownBeforeSpawn == [][C4_Step]_vars

C4_Witness ==
    \E t \in Tasks :
        /\ pc[t] = "done" /\ ~Announced(t, "running") /\ Last(ui[t]) = "failed"
        /\ Len(dep_rxs[t]) > 0
        /\ \A d \in Range(dep_rxs[t]) : branch[d] = "shutdown"
        /\ shutdown_rx[t] = 0

\* C5: once shutdown has been broadcast, every runner eventually reports a
\* terminal status and returns.
C5_EverySuspensionCancels ==
    \A t \in Tasks : shutdown.value ~> (pc[t] = "done" /\ Terminals(t) # {})

\* C6: after a runner has returned from the shutdown arm, neither its child nor
\* any descendant of the child is alive.
C6_TreeKilled ==
    \A t \in Tasks :
        (pc[t] = "done" /\ branch[t] = "shutdown")
            => (child[t] # "alive" /\ ~grandchild[t])

\* C7: while the child is spawned and alive and the runner is in its race,
\* readiness is true exactly when the task has no ready_check or a stdout line
\* whose trimmed text contains the ready_check has been read.
C7_ReadinessPolicy ==
    \A t \in Tasks :
        (pc[t] = "race" /\ child[t] = "alive")
            => (ready[t] <=>
                  \/ ~ready_check[t].some
                  \/ \E i \in 1..Len(lines_read[t]) :
                        Contains(Trim(lines_read[t][i]), ready_check[t].text))

C7_Witness ==
    \E t, u \in Tasks :
        /\ pc[t] = "race" /\ child[t] = "alive" /\ ready_check[t].some
        /\ ready[t] /\ lines_read[t] # <<>>
        /\ pc[u] = "race" /\ child[u] = "alive" /\ ready_check[u].some
        /\ ~ready[u] /\ (lines_read[u] # <<>> \/ err_read[u] > 0)

\* C8: a runner reports at most one terminal status, nothing after it, and
\* exactly one once it has returned: succeeded exactly when the child arm of the
\* race ran and the exit status was zero.
C8_OneTerminalStatus ==
    \A t \in Tasks :
        /\ Cardinality(Terminals(t)) <= 1
        /\ Terminals(t) # {} => (Terminals(t) = {Len(ui[t])} /\ pc[t] = "done")
        /\ pc[t] = "done" =>
              /\ Terminals(t) # {}
              /\ Last(ui[t]) = "succeeded"
                    <=> (branch[t] = "child" /\ status[t] = "exit0")

C8_Witness ==
    \E t, u \in Tasks :
        /\ pc[t] = "done" /\ Last(ui[t]) = "succeeded"
        /\ pc[u] = "done" /\ branch[u] = "child" /\ status[u] = "exit1"

(***************************************************************************)
(* topo_sort, config.rs:45-85.  A TaskEntry is [name, depends_on]; names   *)
(* are numbers.  The i-th entry of a manifest of n entries is named i, and *)
(* depends_on names are drawn from 1..n+1, so n+1 names no task.           *)
(***************************************************************************)
RECURSIVE DepLists(_, _)
\* the sequences of at most k names out of 1..m
DepLists(m, k) ==
    IF k = 0 THEN { <<>> }
    ELSE LET shorter == DepLists(m, k - 1)
         IN shorter \cup { Append(l, d) : l \in shorter, d \in 1..m }

RECURSIVE ManifestsOf(_, _, _)
\* the first i entries of the manifests of n entries with at most k depends_on names
ManifestsOf(n, i, k) ==
    IF i = 0 THEN { <<>> }
    ELSE UNION { { Append(m, [name |-> i, depends_on |-> l]) :
                     m \in ManifestsOf(n, i - 1, k - Len(l)) } :
                 l \in DepLists(n + 1, k) }

Manifests == UNION { ManifestsOf(n, n, MaxDeps) : n \in 1..MaxEntries }

\* config.rs:46-50: the HashMap from name to index (a later entry of the same
\* name replaces an earlier one); 0 when the name is absent
IndexOf(es, name) ==
    LET at == { i \in 1..Len(es) : es[i].name = name }
    IN IF at = {} THEN 0 ELSE CHOOSE i \in at : \A j \in at : j <= i

\* config.rs:56-60: the first (entry, dependency) in iteration order whose name
\* is unknown, as [i, j]; [i |-> 0, j |-> 0] when every name resolves
FirstUnknown(es) ==
    LET bad == { ij \in (1..Len(es)) \X (1..MaxDeps + 1) :
                    /\ ij[2] <= Len(es[ij[1]].depends_on)
                    /\ IndexOf(es, es[ij[1]].depends_on[ij[2]]) = 0 }
    IN IF bad = {} THEN [i |-> 0, j |-> 0]
       ELSE LET f == CHOOSE ij \in bad :
                        \A o \in bad : ij[1] < o[1] \/ (ij[1] = o[1] /\ ij[2] <= o[2])
            IN [i |-> f[1], j |-> f[2]]

RECURSIVE Dependents(_, _, _, _)
\* config.rs:56-63: adj[d], the entries pushed for dependency index d, scanning
\* from entry i, dependency j
Dependents(es, d, i, j) ==
    IF i > Len(es) THEN <<>>
    ELSE IF j > Len(es[i].depends_on) THEN Dependents(es, d, i + 1, 1)
    ELSE (IF IndexOf(es, es[i].depends_on[j]) = d THEN <<i>> ELSE <<>>)
            \o Dependents(es, d, i, j + 1)

Adj(es) == [d \in 1..Len(es) |-> Dependents(es, d, 1, 1)]

\* config.rs:62: one increment for every depends_on name
InDegree(es) == [i \in 1..Len(es) |-> Len(es[i].depends_on)]

RECURSIVE Ascending(_, _, _)
Ascending(in_degree, i, n) ==
    IF i > n THEN <<>>
    ELSE (IF in_degree[i] = 0 THEN <<i>> ELSE <<>>) \o Ascending(in_degree, i + 1, n)

\* config.rs:66: the entries of in-degree zero, in manifest order
InitialQueueAll(in_degree, n) == Ascending([i \in 1..n |-> 0], 1, n)
InitialQueueDescending(in_degree, n) ==
    LET up == Ascending(in_degree, 1, n)
    IN [k \in 1..Len(up) |-> up[Len(up) + 1 - k]]
InitialQueue(in_degree, n) == Ascending(in_degree, 1, n)

RECURSIVE Relax(_, _, _)
\* config.rs:71-76: decrement every dependent of the popped entry, queueing those
\* that reach zero
Relax(nexts, in_degree, queue) ==
    IF nexts = <<>> THEN [in_degree |-> in_degree, queue |-> queue]
    ELSE LET next == Head(nexts)
             deg == [in_degree EXCEPT ![next] = @ - 1]
         IN Relax(Tail(nexts), deg,
                  IF deg[next] = 0 THEN Append(queue, next) ELSE queue)

RECURSIVE Kahn(_, _, _, _)
\* config.rs:69-77
Kahn(queue, order, in_degree, adj) ==
    IF queue = <<>> THEN order
    ELSE LET idx == Head(queue)
             r == Relax(adj[idx], in_degree, Tail(queue))
         IN Kahn(r.queue, Append(order, idx), r.in_degree, adj)

\* config.rs:79
CycleDetectedNever(order, n) == FALSE
CycleDetected(order, n) == Len(order) # n

\* config.rs:45-85
topo_sort(es) ==
    LET unknown == FirstUnknown(es)
        n == Len(es)
        in_degree == InDegree(es)
        order == Kahn(InitialQueue(in_degree, n), <<>>, in_degree, Adj(es))
    IN IF unknown.i # 0
         THEN [state |-> "panic_unknown", order |-> <<>>,
               dependent |-> es[unknown.i].name,
               missing |-> es[unknown.i].depends_on[unknown.j]]
       ELSE IF CycleDetected(order, n)
         THEN [state |-> "panic_cycle", order |-> <<>>, dependent |-> 0, missing |-> 0]
       ELSE [state |-> "ok", order |-> [k \in 1..Len(order) |-> es[order[k]]],
             dependent |-> 0, missing |-> 0]

InitTopo ==
    /\ dep_rxs = [t \in Tasks |-> <<>>]
    /\ ready_check = [t \in Tasks |-> NoCheck]
    /\ RunnersAtStart
    /\ entries \in Manifests
    /\ sorted = TopoIdle
    /\ RegistryAtStart
    /\ MainAtStart

\* main.rs:222: the supervisor orders the manifest it has parsed
TopoSort ==
    /\ sorted.state = "idle"
    /\ sorted' = topo_sort(entries)
    /\ UNCHANGED <<entries, runnerVars, pidVars, mainVars>>

NextTopo == TopoSort

SpecTopo == InitTopo /\ [][NextTopo]_vars

(***************************************************************************)
(* Properties of topo_sort.                                                *)
(***************************************************************************)
NamesOf(es) == { es[i].name : i \in 1..Len(es) }
Resolves(es) == \A i \in 1..Len(es) : Range(es[i].depends_on) \subseteq NamesOf(es)

\* position of the task named nm in the sequence es (0 when absent)
PositionOf(es, nm) ==
    IF \E k \in 1..Len(es) : es[k].name = nm
      THEN CHOOSE k \in 1..Len(es) : es[k].name = nm
      ELSE 0

\* every declared dependency of a task stands before the task
DepsFirst(es) ==
    \A k \in 1..Len(es) : \A d \in Range(es[k].depends_on) :
        PositionOf(es, d) # 0 /\ PositionOf(es, d) < k

\* the sequence out holds each element of the sequence in exactly once
IsPermutation(out, in) ==
    /\ Len(out) = Len(in)
    /\ \A i \in 1..Len(in) : Cardinality({ k \in 1..Len(out) : out[k] = in[i] }) = 1

\* the dependency graph has no cycle: some arrangement of the tasks puts every
\* dependency before its dependent
Acyclic(es) ==
    \E p \in Permutations(1..Len(es)) :
        \A i \in 1..Len(es) : \A d \in Range(es[i].depends_on) :
            PositionOf(es, d) # 0 => p[PositionOf(es, d)] < p[i]

\* C9: for a manifest whose names all resolve and whose graph is acyclic,
\* topo_sort returns a permutation of the declarations in which every declared
\* dependency stands before its dependent.
C9_TopoOrder ==
    (sorted.state # "idle" /\ Resolves(entries) /\ Acyclic(entries))
        => /\ sorted.state = "ok"
           /\ IsPermutation(sorted.order, entries)
           /\ DepsFirst(sorted.order)

C9_Witness ==
    /\ sorted.state = "ok"
    /\ Len(entries) = 3
    /\ sorted.order # entries
    /\ \E i \in 1..Len(entries) : Len(entries[i].depends_on) = 2

\* C10: topo_sort fails exactly when a depends_on name is unknown (and then names
\* a dependent and a dependency of it that no task bears) or the graph has a
\* cycle; otherwise it returns an ordering.
C10_TopoFailure ==
    sorted.state # "idle" =>
        /\ sorted.state \in {"ok", "panic_unknown", "panic_cycle"}
        /\ sorted.state = "ok" <=> (Resolves(entries) /\ Acyclic(entries))
        /\ sorted.state = "panic_unknown" <=> ~Resolves(entries)
        /\ sorted.state = "panic_unknown" =>
              \E i \in 1..Len(entries) :
                 /\ entries[i].name = sorted.dependent
                 /\ sorted.missing \in Range(entries[i].depends_on)
                 /\ sorted.missing \notin NamesOf(entries)

C10_Witness ==
    /\ sorted.state = "panic_cycle"
    /\ \E i \in 1..Len(entries) : entries[i].name \in Range(entries[i].depends_on)

\* the largest member of a non-empty set of numbers, 0 for the empty set
Max(S) == IF S = {} THEN 0 ELSE CHOOSE x \in S : \A y \in S : y <= x
Min(S) == CHOOSE x \in S : \A y \in S : x <= y

\* number of times the name nm stands in the dependency list deps
Occurrences(deps, nm) == Cardinality({ j \in 1..Len(deps) : deps[j] = nm })

RECURSIVE LowestIndexFirst(_, _, _)
\* the order that always emits, among the entries of in-degree zero not yet
\* emitted, the one that comes first in the manifest
LowestIndexFirst(es, emitted, in_degree) ==
    LET free == { i \in 1..Len(es) : in_degree[i] = 0 /\ i \notin Range(emitted) }
    IN IF free = {} THEN emitted
       ELSE LET idx == Min(free)
            IN LowestIndexFirst(es, Append(emitted, idx),
                 [i \in 1..Len(es) |->
                     in_degree[i] - Occurrences(es[i].depends_on, es[idx].name)])

\* C11 as stated: the ordering is the one that emits the lowest manifest index
\* among the entries currently of in-degree zero.
C11_LowestIndexTieBreak ==
    sorted.state = "ok" =>
        LET ref == LowestIndexFirst(entries, <<>>, InDegree(entries))
        IN sorted.order = [k \in 1..Len(ref) |-> entries[ref[k]]]

\* place in the output at which the entry at output place k was released: the
\* place of the last of its dependencies, 0 when it has none
ReleasedAt(out, k) ==
    Max({ PositionOf(out, d) : d \in Range(out[k].depends_on) })

\* C11 amended: the ordering is first-in first-out in the order of release;
\* entries are emitted by increasing place of release, and manifest order decides
\* only among entries released at the same place.
C11_FifoOrder ==
    sorted.state = "ok" =>
        \A a, b \in 1..Len(sorted.order) :
            a < b =>
                \/ ReleasedAt(sorted.order, a) < ReleasedAt(sorted.order, b)
                \/ /\ ReleasedAt(sorted.order, a) = ReleasedAt(sorted.order, b)
                   /\ PositionOf(entries, sorted.order[a].name)
                        < PositionOf(entries, sorted.order[b].name)

C11_Witness ==
    /\ sorted.state = "ok"
    /\ LET ref == LowestIndexFirst(entries, <<>>, InDegree(entries))
       IN sorted.order # [k \in 1..Len(ref) |-> entries[ref[k]]]

(***************************************************************************)
(* PidFile, pidfile.rs.  The file is a sequence of characters.  Every      *)
(* call on the file system is taken to succeed on a file it can act on:    *)
(* create, write and remove do what they are asked; read_to_string fails   *)
(* on contents that are not UTF-8.                                         *)
(***************************************************************************)
Pids == { 8 + k : k \in 1..NPids }

Digits == <<"0", "1", "2", "3", "4", "5", "6", "7", "8", "9">>
IsDigit(c) == \E d \in 1..Len(Digits) : Digits[d] = c
DigitValue(c) == (CHOOSE d \in 1..Len(Digits) : Digits[d] = c) - 1
\* a byte that is no part of any UTF-8 text
BadByte == "<FF>"
Newline == "\n"

RECURSIVE Format(_)
\* pidfile.rs:57: "{}" of a u32, its decimal digits
Format(n) ==
    IF n < 10 THEN <<Digits[n + 1]>>
    ELSE Append(Format(n \div 10), Digits[(n % 10) + 1])

RECURSIVE DigitsValue(_)
DigitsValue(s) ==
    IF s = <<>> THEN 0
    ELSE 10 * DigitsValue(SubSeq(s, 1, Len(s) - 1)) + DigitValue(s[Len(s)])

AllDigits(s) == s # <<>> /\ \A i \in 1..Len(s) : IsDigit(s[i])

\* pidfile.rs:26: line.trim().parse::<u32>(): an optional "+" and then one or
\* more digits (the texts of the model have at most four digits, within u32)
Parse(line) ==
    LET s == Trim(line)
        digits == IF s # <<>> /\ Head(s) = "+" THEN Tail(s) ELSE s
    IN IF AllDigits(digits) THEN [ok |-> TRUE, pid |-> DigitsValue(digits)]
       ELSE [ok |-> FALSE, pid |-> 0]
ParseNoTrim(line) ==
    IF AllDigits(line) THEN [ok |-> TRUE, pid |-> DigitsValue(line)]
    ELSE [ok |-> FALSE, pid |-> 0]

RECURSIVE SplitLines(_, _)
\* pidfile.rs:25: str::lines: the text between newlines, and the text after the
\* last newline when there is some
SplitLines(s, line) ==
    IF s = <<>> THEN (IF line = <<>> THEN <<>> ELSE <<line>>)
    ELSE IF Head(s) = Newline THEN <<line>> \o SplitLines(Tail(s), <<>>)
    ELSE SplitLines(Tail(s), Append(line, Head(s)))
LinesOf(contents) == SplitLines(contents, <<>>)

\* pidfile.rs:21-24: fs::read_to_string
ReadToString(f) ==
    IF \E i \in 1..Len(f.contents) : f.contents[i] = BadByte
      THEN [ok |-> FALSE, contents |-> <<>>]
      ELSE [ok |-> TRUE, contents |-> f.contents]

CreateAppend(f) == [exists |-> TRUE, contents |-> f.contents]
\* pidfile.rs:55: fs::File::create makes the file or truncates it
Create(f) == [exists |-> TRUE, contents |-> <<>>]

\* pidfile.rs:57: writeln!: the identifier and a newline at the end of the file
Writeln(f, pid) == [f EXCEPT !.contents = @ \o Format(pid) \o <<Newline>>]

RemoveKeep(f) == f
\* pidfile.rs:30,41,51,80: fs::remove_file, its result dropped
Remove(f) == NoFile

\* pidfile.rs:17-31
load_and_kill_existing(f) ==
    IF ~f.exists THEN [kills |-> {}, file |-> f]
    ELSE LET read == ReadToString(f)
             lines == LinesOf(read.contents)
         IN IF ~read.ok THEN [kills |-> {}, file |-> f]
            ELSE [kills |-> { Parse(lines[i]).pid :
                                i \in { j \in 1..Len(lines) : Parse(lines[j]).ok } },
                  file |-> Remove(f)]

\* what a previous run, or anything else, may have left at the path
StaleChunks ==
    { <<"9", Newline>>, <<" ", "1", "0", " ", Newline>>, <<Newline>>,
      <<"x", Newline>>, <<"+", "9", Newline>>, <<BadByte, Newline>>, <<"9">> }
RECURSIVE StaleTexts(_)
StaleTexts(n) ==
    IF n = 0 THEN { <<>> }
    ELSE StaleTexts(n - 1)
           \cup { t \o c : t \in StaleTexts(n - 1), c \in StaleChunks }
StartupFiles ==
    { NoFile } \cup { [exists |-> TRUE, contents |-> t] : t \in StaleTexts(MaxStale) }

Called(name, pid, kills, newPids, newFile) ==
    [op |-> name, pid |-> pid, held |-> pids, seen |-> file, kills |-> kills,
     pids |-> newPids, file |-> newFile]

mainIdle == <<runnerVars, topoVars, mainVars>>

\* pidfile.rs:12-31: the supervisor makes the registry and recovers at startup
Recover ==
    /\ reg_pc = "new"
    /\ LET r == load_and_kill_existing(file)
       IN /\ file' = r.file
          /\ last' = Called("recover", 0, r.kills, pids, r.file)
    /\ prev' = last
    /\ reg_pc' = "idle"
    /\ UNCHANGED <<pids, pending, hist, mainIdle>>

\* pidfile.rs:54-55: write() opens the file; the loop of lines 56-58 follows
WriteOpen(name, pid, newPids) ==
    /\ pids' = newPids
    /\ hist' = hist \cup {newPids}
    /\ file' = Create(file)
    /\ pending' = newPids
    /\ reg_pc' = "write"
    /\ prev' = last
    /\ last' = Called(name, pid, {}, newPids, Create(file))

\* pidfile.rs:33-36
Register(pid) ==
    /\ reg_pc = "idle"
    /\ WriteOpen("register", pid, pids \cup {pid})
    /\ UNCHANGED mainIdle

\* pidfile.rs:38-45
Unregister(pid) ==
    /\ reg_pc = "idle"
    /\ IF pids \ {pid} = {}
         THEN /\ pids' = {}
              /\ hist' = hist \cup {{}}
              /\ file' = Remove(file)
              /\ prev' = last
              /\ last' = Called("unregister", pid, {}, {}, Remove(file))
              /\ UNCHANGED <<reg_pc, pending>>
         ELSE WriteOpen("unregister", pid, pids \ {pid})
    /\ UNCHANGED mainIdle

\* pidfile.rs:56-58: one turn of the loop of write(); a HashSet is iterated in
\* no fixed order; write() returns after the last identifier
WriteLine ==
    /\ reg_pc = "write"
    /\ \E pid \in pending :
         /\ file' = Writeln(file, pid)
         /\ pending' = pending \ {pid}
         /\ last' = [last EXCEPT !.file = Writeln(file, pid)]
         /\ reg_pc' = IF pending \ {pid} = {} THEN "idle" ELSE "write"
    /\ UNCHANGED <<pids, hist, prev, mainIdle>>

\* pidfile.rs:47-52
Cleanup ==
    /\ reg_pc = "idle"
    /\ pids' = {}
    /\ hist' = hist \cup {{}}
    /\ file' = Remove(file)
    /\ prev' = last
    /\ last' = Called("cleanup", 0, pids, {}, Remove(file))
    /\ UNCHANGED <<reg_pc, pending, mainIdle>>

\* pidfile.rs:67-82: the kills are spawned only when a runtime is at hand
Drop(rt) ==
    /\ reg_pc \in {"new", "idle"}
    /\ pids' = {}
    /\ hist' = hist \cup {{}}
    /\ file' = Remove(file)
    /\ prev' = last
    /\ last' = Called("drop", 0, IF rt THEN pids ELSE {}, {}, Remove(file))
    /\ reg_pc' = "dropped"
    /\ UNCHANGED <<pending, mainIdle>>

\* the supervisor's process dies; inside write() the file stays as far as it
\* was written
Crash ==
    /\ reg_pc \in {"idle", "write"}
    /\ reg_pc' = IF reg_pc = "write" THEN "interrupted" ELSE "crashed"
    /\ UNCHANGED <<pids, file, pending, hist, last, prev, mainIdle>>

InitPid ==
    /\ dep_rxs = [t \in Tasks |-> <<>>]
    /\ ready_check = [t \in Tasks |-> NoCheck]
    /\ RunnersAtStart
    /\ entries = <<>>
    /\ sorted = TopoIdle
    /\ MainAtStart
    /\ pids = {}
    /\ file \in StartupFiles
    /\ reg_pc = "new"
    /\ pending = {}
    /\ hist = {{}}
    /\ last = NoOp
    /\ prev = NoOp

NextPid ==
    \/ Recover
    \/ \E pid \in Pids : Register(pid)
    \/ \E pid \in Pids : Unregister(pid)
    \/ WriteLine
    \/ Cleanup
    \/ \E rt \in BOOLEAN : Drop(rt)
    \/ Crash

SpecPid == InitPid /\ [][NextPid]_vars

(***************************************************************************)
(* Properties of PidFile.                                                  *)
(***************************************************************************)
\* the identifiers a file lists: its lines that are, blanks at the ends apart,
\* a decimal number
IsIdentifier(line) == AllDigits(Trim(line))
ListedIds(f) ==
    LET lines == LinesOf(f.contents)
    IN { DigitsValue(Trim(lines[i])) :
           i \in { j \in 1..Len(lines) : IsIdentifier(lines[j]) } }
\* what is compared of a file: whether it exists, the identifiers it lists, and
\* how many lines it has
Store(f) == [exists |-> f.exists, ids |-> ListedIds(f), lines |-> Len(LinesOf(f.contents))]

\* C12: register(p) called right after register(p) leaves the set and the file
\* as the first call left them.
C12_RegisterIdempotent ==
    (/\ reg_pc = "idle"
     /\ last.op = "register" /\ prev.op = "register" /\ last.pid = prev.pid)
    => /\ pids = prev.pids
       /\ Store(file) = Store(prev.file)

C12_Witness ==
    /\ reg_pc = "idle"
    /\ last.op = "register" /\ prev.op = "register" /\ last.pid = prev.pid
    /\ Cardinality(pids) = 2
    /\ Cardinality(prev.held) = 1

\* C13: between operations, once recover has run, the file exists exactly when
\* the set is not empty, and then lists exactly the set.
C13_StoreMirrorsSet ==
    reg_pc = "idle" =>
        /\ file.exists <=> pids # {}
        /\ file.exists => ListedIds(file) = pids

\* C14: when cleanup has returned, every identifier held at its start has had a
\* kill of its tree attempted, the set is empty and the file is gone; the file
\* is gone as well once the registry is dropped.
C14_CleanupEmpties ==
    /\ (reg_pc = "idle" /\ last.op = "cleanup") =>
          /\ last.held \subseteq last.kills
          /\ pids = {}
          /\ ~file.exists
    /\ reg_pc = "dropped" => ~file.exists

C14_Witness ==
    /\ reg_pc = "idle" /\ last.op = "cleanup"
    /\ Cardinality(last.held) = 2
    /\ last.seen.exists
    /\ prev.op = "register"

\* C17: when a file exists at startup, after recover every identifier it lists
\* has had a kill of its tree attempted, the file is gone and the set is empty.
C17_RecoverReaps ==
    (reg_pc = "idle" /\ last.op = "recover" /\ last.seen.exists) =>
        /\ ListedIds(last.seen) \subseteq last.kills
        /\ ~file.exists
        /\ pids = {}

\* C18: a file left by an interrupted write() lists a set of identifiers that
\* the registry has had in this run.
C18_PartialWriteIsEarlierState ==
    reg_pc = "interrupted" => ListedIds(file) \in hist

\* the identifier of the child of the runner of task t
ChildPid(t) == 8 + t

\* C15: while a runner's child is alive its identifier is held by the registry
\* and listed in the store.
C15_LiveChildRegistered ==
    \A t \in Tasks :
        child[t] = "alive" => ChildPid(t) \in pids /\ ChildPid(t) \in ListedIds(file)

(***************************************************************************)
(* main, main.rs:210-271, with the run_task of main.rs (108-208): one      *)
(* optional dependency per task, no shutdown channel, no registry.  The    *)
(* streamers of a runner end when the child's pipes close, taken here to   *)
(* be when the child exits.                                                *)
(***************************************************************************)
mainOther == <<configVars, shutdown, shutdown_rx, branch, pane, status, grandchild,
               stdout, stderr, streamVars, topoVars, pidVars>>

\* main.rs:236-259: the channels are made and every runner is spawned
MainSpawn ==
    /\ main_pc = "spawn"
    /\ main_pc' = "join"
    /\ UNCHANGED <<ready, pc, ui, child, joined, tui, mainOther>>

\* main.rs:116-133: announce "waiting" when there is a dependency, else "running"
MainRunStart(t) ==
    /\ main_pc # "spawn"
    /\ pc[t] = "start"
    /\ IF dep_rxs[t] # <<>>
         THEN /\ ui' = Push(ui, t, "waiting")
              /\ pc' = Set(pc, t, "wait")
         ELSE /\ ui' = Push(ui, t, "running")
              /\ pc' = Set(pc, t, "spawn")
    /\ UNCHANGED <<ready, child, main_pc, joined, tui, mainOther>>

\* main.rs:126-133: rx.wait_for(|&ready| ready) returns, "running" is announced
MainRunWait(t) ==
    /\ pc[t] = "wait"
    /\ ready[dep_rxs[t][1]]
    /\ ui' = Push(ui, t, "running")
    /\ pc' = Set(pc, t, "spawn")
    /\ UNCHANGED <<ready, child, main_pc, joined, tui, mainOther>>

\* main.rs:135-185: the child is spawned, readiness is sent when there is no
\* ready_check, the streamers start
MainRunSpawnOk(t) ==
    /\ pc[t] = "spawn"
    /\ child' = Set(child, t, "alive")
    /\ ready' = IF ready_check[t] = NoCheck THEN SendReady(t) ELSE ready
    /\ pc' = Set(pc, t, "drain")
    /\ UNCHANGED <<ui, main_pc, joined, tui, mainOther>>

\* main.rs:141-149: the spawn fails
MainRunSpawnErr(t) ==
    /\ pc[t] = "spawn"
    /\ ui' = Push(ui, t, "failed")
    /\ ready' = SendReady(t)
    /\ pc' = Set(pc, t, "done")
    /\ UNCHANGED <<child, main_pc, joined, tui, mainOther>>

\* main.rs:166-170: the stdout streamer reads a line whose trimmed text is the
\* ready_check
MainRunMatch(t) ==
    /\ pc[t] = "drain"
    /\ ready_check[t] = SomeCheck
    /\ child[t] = "alive"
    /\ ~ready[t]
    /\ ready' = SendReady(t)
    /\ UNCHANGED <<pc, ui, child, main_pc, joined, tui, mainOther>>

\* the child ends of its own accord
MainChildExit(t) ==
    /\ child[t] = "alive"
    /\ child' = Set(child, t, "exited")
    /\ UNCHANGED <<ready, pc, ui, main_pc, joined, tui, mainOther>>

\* main.rs:187-207: both streamers have ended, readiness is sent, child.wait()
\* returns and the terminal status is announced
MainRunFinish(t) ==
    /\ pc[t] = "drain"
    /\ child[t] = "exited"
    /\ ready' = SendReady(t)
    /\ \E outcome \in {"succeeded", "failed"} : ui' = Push(ui, t, outcome)
    /\ pc' = Set(pc, t, "done")
    /\ UNCHANGED <<child, main_pc, joined, tui, mainOther>>

\* main.rs:261-263: main awaits the handles one after the other
MainJoin ==
    /\ main_pc = "join"
    /\ joined < NTasks
    /\ pc[joined + 1] = "done"
    /\ joined' = joined + 1
    /\ UNCHANGED <<ready, pc, ui, child, main_pc, tui, mainOther>>

\* main.rs:266-267: every handle is joined; after the pause the UI is stopped
MainStop ==
    /\ main_pc = "join"
    /\ joined = NTasks
    /\ tui' = IF tui = "running" THEN "stopped" ELSE tui
    /\ main_pc' = "await_tui"
    /\ UNCHANGED <<ready, pc, ui, child, joined, mainOther>>

\* main.rs:269-270: the UI task has ended, main returns
MainExit ==
    /\ main_pc = "await_tui"
    /\ tui # "running"
    /\ main_pc' = "exit"
    /\ UNCHANGED <<ready, pc, ui, child, joined, tui, mainOther>>

\* main.rs:232-234: run_app returns because the user typed the quit key
UserQuit ==
    /\ main_pc # "spawn"
    /\ tui = "running"
    /\ tui' = "quit"
    /\ UNCHANGED <<ready, pc, ui, child, main_pc, joined, mainOther>>

MainRunner(t) ==
    \/ MainRunStart(t) \/ MainRunWait(t) \/ MainRunSpawnOk(t) \/ MainRunSpawnErr(t)
    \/ MainRunFinish(t)

Main == MainSpawn \/ MainJoin \/ MainStop \/ MainExit

\* main.rs:251-254: depends_on names at most one task, declared earlier once the
\* manifest is sorted
InitMain ==
    /\ dep_rxs \in { f \in [Tasks -> UNION { DepChoices(t) : t \in Tasks }] :
                       \A t \in Tasks : f[t] \in DepChoices(t) /\ Len(f[t]) <= 1 }
    /\ ready_check \in [Tasks -> {NoCheck, SomeCheck}]
    /\ RunnersAtStart
    /\ entries = <<>>
    /\ sorted = TopoIdle
    /\ RegistryAtStart
    /\ MainAtStart

NextMain ==
    \/ Main
    \/ \E t \in Tasks : MainRunner(t)
    \/ \E t \in Tasks : MainRunMatch(t)
    \/ \E t \in Tasks : MainChildExit(t)
    \/ UserQuit

SpecMain == InitMain /\ [][NextMain]_vars

\* the runtime runs main and every runner that can make progress; nothing
\* obliges a child to print, to exit, or the user to quit
FairSpecMain ==
    /\ SpecMain
    /\ WF_vars(Main)
    /\ \A t \in Tasks : WF_vars(MainRunner(t))

\* C16: when the user quits the UI while a runner is active, the supervisor
\* broadcasts shutdown and goes on to exit.
C16_QuitBroadcastsShutdown ==
    (tui = "quit" /\ \E t \in Tasks : pc[t] # "done")
        ~> (shutdown.value /\ main_pc = "exit")

(***************************************************************************)
(* Properties of run_task: the order of readiness and output, and the      *)
(* shutdown notification in the race.                                      *)
(***************************************************************************)
\* C19: while a producer with a ready_check is still racing (so that only a
\* line of its stdout can have made it ready), a dependent has announced
\* "running" only if a line holding the ready_check is in the producer's pane.
C19_ReadyLineShownFirst ==
    \A t, d \in Tasks :
        (/\ d \in Range(dep_rxs[t])
         /\ ready_check[d].some
         /\ pc[d] = "race"
         /\ Announced(t, "running"))
        => \E i \in 1..Len(pane[d]) :
              /\ pane[d][i].from = "stdout"
              /\ LineMatches(ready_check[d], pane[d][i].line)

\* C20 as stated: once shutdown is true during the race, the race ends by the
\* shutdown arm.
C20_RaceEndsByShutdown ==
    [][\A t \in Tasks :
         (pc[t] = "race" /\ shutdown.value /\ pc'[t] # "race") => pc'[t] = "kill"]_vars

\* C20 amended: while shutdown is true during the race its notification is
\* unseen by the runner's receiver, so the shutdown arm is ready; the race ends
\* by the shutdown arm or, only when the child has exited, by the child arm; and
\* the shutdown arm leaves the child not alive, the streamers aborted,
\* readiness true and "failed" as the last status.
C20_ShutdownNotLost ==
    /\ [](\A t \in Tasks :
            (pc[t] = "race" /\ shutdown.value) => shutdown.version # shutdown_rx[t])
    /\ [][\A t \in Tasks :
            (pc[t] = "race" /\ shutdown.value /\ pc'[t] # "race")
            => \/ pc'[t] = "kill"
               \/ child[t] = "exited" /\ pc'[t] = "drain"]_vars
    /\ [][\A t \in Tasks :
            (pc[t] = "kill" /\ pc'[t] # "kill")
            => /\ pc'[t] = "done"
               /\ child'[t] # "alive"
               /\ stdout_task'[t].pc \notin {"read", "write"}
               /\ stderr_task'[t].pc \notin {"read", "write"}
               /\ ready'[t]
               /\ Last(ui'[t]) = "failed"]_vars

C20_Witness ==
    \E t \in Tasks :
        /\ pc[t] = "done"
        /\ branch[t] = "shutdown"
        /\ child[t] = "killed"
        /\ dep_rxs[t] # <<>>
        /\ stdout_task[t].pc = "aborted"

====
